---- MODULE Spec2Model ----
(***************************************************************************)
(* Model of namefile.core: the FileInfo value object, its constructor      *)
(* (__post_init__), FileInfo.name (encode) and FileInfo.parse (decode).    *)
(*                                                                         *)
(* Strings are sequences of characters; a character is a one-element       *)
(* token drawn from CodePoints, which lists the modelled characters in     *)
(* code point order ("U+00E9" stands for a non-ASCII word character).      *)
(* Optional values are <<>> (None) or <<x>> (the value x).                 *)
(***************************************************************************)
EXTENDS Naturals, Integers, Sequences, FiniteSets, TLC

\* ------------------------------------------------------------------------
\* Characters
\* ------------------------------------------------------------------------
CodePoints ==
  << " ", "!", "+", "-", ".", "/",
     "0", "1", "2", "3", "4", "5", "6", "7", "8", "9",
     "_", "a", "d", "e", "f", "o", "p", "s", "t", "v", "x", "U+00E9" >>

Ord(c) == CHOOSE i \in 1..Len(CodePoints) : CodePoints[i] = c

DigitChars == {"0", "1", "2", "3", "4", "5", "6", "7", "8", "9"}
AsciiLetters == {"a", "d", "e", "f", "o", "p", "s", "t", "v", "x"}
\* \w of a Python str pattern: letters (Unicode), digits and underscore
WordChars == AsciiLetters \cup DigitChars \cup {"_", "U+00E9"}

None == << >>
Some(x) == << x >>

Range(s) == { s[i] : i \in 1..Len(s) }
MaxOf(S) == CHOOSE x \in S : \A y \in S : y <= x
AllIn(s, lo, hi, C) == \A k \in lo..hi : s[k] \in C

\* str < str of Python: lexicographic by code point
RECURSIVE StrLess(_, _)
StrLess(a, b) ==
  IF b = << >> THEN FALSE
  ELSE IF a = << >> THEN TRUE
  ELSE IF Ord(a[1]) # Ord(b[1]) THEN Ord(a[1]) < Ord(b[1])
  ELSE StrLess(Tail(a), Tail(b))

\* int(text) for a run of decimal digits
RECURSIVE ToInt(_)
ToInt(s) ==
  IF s = << >> THEN 0
  ELSE 10 * ToInt(SubSeq(s, 1, Len(s) - 1)) + (Ord(s[Len(s)]) - Ord("0"))

DigitOf(n) == CodePoints[Ord("0") + n]

\* str(n) for a non-negative int
RECURSIVE IntToStr(_)
IntToStr(n) ==
  IF n < 10 THEN << DigitOf(n) >>
  ELSE Append(IntToStr(n \div 10), DigitOf(n % 10))

\* n printed with at least w digits, zero padded (%Y, %m, %d of strftime)
RECURSIVE ZeroPad(_, _)
ZeroPad(s, w) == IF Len(s) >= w THEN s ELSE ZeroPad(<< "0" >> \o s, w)

\* '-'.join(...) and friends
RECURSIVE Join(_, _)
Join(sep, parts) ==
  IF parts = << >> THEN << >>
  ELSE IF Len(parts) = 1 THEN parts[1]
  ELSE parts[1] \o sep \o Join(sep, Tail(parts))

\* text.split(sep) for a one-character separator
RECURSIVE Split(_, _)
Split(s, sep) ==
  LET hits == { i \in 1..Len(s) : s[i] = sep }
  IN IF hits = {} THEN << s >>
     ELSE LET i == CHOOSE h \in hits : \A g \in hits : h <= g
          IN << SubSeq(s, 1, i - 1) >> \o Split(SubSeq(s, i + 1, Len(s)), sep)

\* sorted(list(set)) : the strings of S in ascending order
RECURSIVE SortedSeq(_)
SortedSeq(S) ==
  IF S = {} THEN << >>
  ELSE LET m == CHOOSE x \in S : \A y \in S : y = x \/ StrLess(x, y)
       IN << m >> \o SortedSeq(S \ {m})

\* sorted(list) : the list in ascending order, repetitions kept
RECURSIVE sorted(_)
sorted(l) ==
  IF l = << >> THEN << >>
  ELSE LET i == CHOOSE k \in 1..Len(l) :
                  \A j \in 1..Len(l) : l[j] = l[k] \/ StrLess(l[k], l[j])
       IN << l[i] >> \o sorted(SubSeq(l, 1, i - 1) \o SubSeq(l, i + 1, Len(l)))

\* ------------------------------------------------------------------------
\* Patterns of core.py
\* ------------------------------------------------------------------------
INVALID_STEM_CHAR == {".", "-", " ", "/"}

\* re.fullmatch(STEM_PATTERN, s) / re.fullmatch(VALID_TAG_PATTERN, s) : \w+
STEM_PATTERN(s) == Len(s) >= 1 /\ AllIn(s, 1, Len(s), WordChars)
VALID_TAG_PATTERN(s) == Len(s) >= 1 /\ AllIn(s, 1, Len(s), WordChars)
\* re.fullmatch(VALID_SUFFIX_PATTERN, s) : \w*[a-zA-Z]
VALID_SUFFIX_PATTERN(s) ==
  Len(s) >= 1 /\ AllIn(s, 1, Len(s), WordChars) /\ s[Len(s)] \in AsciiLetters

Ok(v) == [ok |-> TRUE, val |-> v]
\* a ValueError: the step that raised it, its message and the value the
\* message quotes (<< >> when it quotes none)
Raise(step, msg, value) == [ok |-> FALSE, step |-> step, msg |-> msg, value |-> value]

\* the replace loop of sanitize_stem (the empty check is in its callers here)
Replaced(s) == [i \in 1..Len(s) |-> IF s[i] \in INVALID_STEM_CHAR THEN "_" ELSE s[i]]

sanitize_stem(step, s) ==
  IF Replaced(s) = << >> THEN Raise(step, "stem is empty", << >>) ELSE Ok(Replaced(s))

\* ------------------------------------------------------------------------
\* packaging.version as used by core.py: version_parse, str(Version), ==
\* The grammar is PEP 440's, restricted to what the modelled characters can
\* spell: v prefix, epoch, release, pre-release "a", post-release "post" or
\* "-N", dev release "dev", local version.
\* ------------------------------------------------------------------------
VersionSeps == {"-", "_", "."}
LocalChars == AsciiLetters \cup DigitChars

\* index of the last character of the longest run of C starting at p
\* (p - 1 when there is none)
RunEnd(s, p, C) ==
  LET E == { e \in p..Len(s) : AllIn(s, p, e, C) }
  IN IF E = {} THEN p - 1 ELSE MaxOf(E)

StartsWith(s, p, w) ==
  p >= 1 /\ p + Len(w) - 1 <= Len(s) /\ SubSeq(s, p, p + Len(w) - 1) = w

\* text.strip() for the space character
RECURSIVE Strip(_)
Strip(s) ==
  IF s = << >> THEN s
  ELSE IF s[1] = " " THEN Strip(Tail(s))
  ELSE IF s[Len(s)] = " " THEN Strip(SubSeq(s, 1, Len(s) - 1))
  ELSE s

\* [0-9]+(?:\.[0-9]+)* : last index of the release segment whose current
\* component ends at e
RECURSIVE ReleaseEnd(_, _)
ReleaseEnd(s, e) ==
  IF e + 2 <= Len(s) /\ s[e + 1] = "." /\ s[e + 2] \in DigitChars
  THEN ReleaseEnd(s, RunEnd(s, e + 2, DigitChars))
  ELSE e

\* [-_\.]? [0-9]* after a label that ends before a
LetterNumber(s, b, e) ==
  [found |-> TRUE,
   n |-> IF e >= b THEN ToInt(SubSeq(s, b, e)) ELSE 0,
   next |-> IF e >= b THEN e + 1 ELSE b]

LetterTail(s, b) == LetterNumber(s, b, RunEnd(s, b, DigitChars))

\* [-_\.]? label [-_\.]? [0-9]* at p
LetterSegment(s, p, label) ==
  IF StartsWith(s, p, label)
  THEN LetterTail(s, IF p + Len(label) <= Len(s) /\ s[p + Len(label)] \in VersionSeps
                     THEN p + Len(label) + 1 ELSE p + Len(label))
  ELSE IF p <= Len(s) /\ s[p] \in VersionSeps /\ StartsWith(s, p + 1, label)
  THEN LetterTail(s, IF p + 1 + Len(label) <= Len(s) /\ s[p + 1 + Len(label)] \in VersionSeps
                     THEN p + Len(label) + 2 ELSE p + Len(label) + 1)
  ELSE [found |-> FALSE, n |-> 0, next |-> p]

\* the post release: -N, or the "post" letter segment
PostSegment(s, p) ==
  IF p + 1 <= Len(s) /\ s[p] = "-" /\ s[p + 1] \in DigitChars
  THEN [found |-> TRUE,
        n |-> ToInt(SubSeq(s, p + 1, RunEnd(s, p + 1, DigitChars))),
        next |-> RunEnd(s, p + 1, DigitChars) + 1]
  ELSE LetterSegment(s, p, << "p", "o", "s", "t" >>)

\* one part of a local version: int(part) for digits, else the text
LocalPart(part) ==
  IF AllIn(part, 1, Len(part), DigitChars) THEN IntToStr(ToInt(part)) ELSE part

\* re.split("[._-]", text)
RECURSIVE SplitSeps(_)
SplitSeps(s) ==
  LET hits == { i \in 1..Len(s) : s[i] \in VersionSeps }
  IN IF hits = {} THEN << s >>
     ELSE LET i == CHOOSE h \in hits : \A g \in hits : h <= g
          IN << SubSeq(s, 1, i - 1) >> \o SplitSeps(SubSeq(s, i + 1, Len(s)))

LegacyVersion == [legacy |-> TRUE]

\* the local version after "+": [a-z0-9]+(?:[-_\.][a-z0-9]+)* up to the end
LocalSegment(localParts) ==
  IF \A i \in 1..Len(localParts) :
       /\ localParts[i] # << >>
       /\ AllIn(localParts[i], 1, Len(localParts[i]), LocalChars)
  THEN [found |-> TRUE, parts |-> [i \in 1..Len(localParts) |-> LocalPart(localParts[i])]]
  ELSE [found |-> FALSE, parts |-> << >>]

\* Version(text) once the regular expression has matched
Version(epoch, comps, pre, post, dev, local) ==
  [legacy |-> FALSE,
   epoch |-> epoch,
   release |-> [i \in 1..Len(comps) |-> ToInt(comps[i])],
   pre |-> IF pre.found THEN Some(pre.n) ELSE None,
   post |-> IF post.found THEN Some(post.n) ELSE None,
   dev |-> IF dev.found THEN Some(dev.n) ELSE None,
   local |-> local]

\* the segments of VERSION_PATTERN (packaging), left to right; each takes
\* what the segments before it have matched
VersionLocal(s, epoch, comps, pre, post, dev, local) ==
  IF dev.next > Len(s) THEN Version(epoch, comps, pre, post, dev, None)
  ELSE IF s[dev.next] = "+" /\ local.found
  THEN Version(epoch, comps, pre, post, dev, Some(local.parts))
  ELSE LegacyVersion

VersionDev(s, epoch, comps, pre, post, dev) ==
  VersionLocal(s, epoch, comps, pre, post, dev,
               LocalSegment(SplitSeps(SubSeq(s, dev.next + 1, Len(s)))))

VersionPost(s, epoch, comps, pre, post) ==
  VersionDev(s, epoch, comps, pre, post,
             LetterSegment(s, post.next, << "d", "e", "v" >>))

VersionPre(s, epoch, comps, pre) ==
  VersionPost(s, epoch, comps, pre, PostSegment(s, pre.next))

VersionComps(s, epoch, r0, rEnd) ==
  VersionPre(s, epoch, Split(SubSeq(s, r0, rEnd), "."),
             LetterSegment(s, rEnd + 1, << "a" >>))

VersionRelease(s, epoch, r0, r1) ==
  IF r1 < r0 THEN LegacyVersion
  ELSE VersionComps(s, epoch, r0, ReleaseEnd(s, r1))

VersionEpoch(s, p0, e1) ==
  IF e1 >= p0 /\ e1 + 1 <= Len(s) /\ s[e1 + 1] = "!"
  THEN VersionRelease(s, ToInt(SubSeq(s, p0, e1)), e1 + 2,
                      RunEnd(s, e1 + 2, DigitChars))
  ELSE VersionRelease(s, 0, p0, e1)

VersionMatch(s, p0) == VersionEpoch(s, p0, RunEnd(s, p0, DigitChars))

\* packaging.version.parse(text): a Version, or LegacyVersion when the text
\* is not a PEP 440 version
version_parse(text) ==
  VersionMatch(Strip(text), IF StartsWith(Strip(text), 1, << "v" >>) THEN 2 ELSE 1)

\* str(version): the canonical text
VersionStr(v) ==
  (IF v.epoch # 0 THEN IntToStr(v.epoch) \o << "!" >> ELSE << >>)
  \o Join(<< "." >>, [i \in 1..Len(v.release) |-> IntToStr(v.release[i])])
  \o (IF v.pre # None THEN << "a" >> \o IntToStr(v.pre[1]) ELSE << >>)
  \o (IF v.post # None THEN << ".", "p", "o", "s", "t" >> \o IntToStr(v.post[1]) ELSE << >>)
  \o (IF v.dev # None THEN << ".", "d", "e", "v" >> \o IntToStr(v.dev[1]) ELSE << >>)
  \o (IF v.local # None THEN << "+" >> \o Join(<< "." >>, v.local[1]) ELSE << >>)

\* the release without its trailing zeros, as Version's comparison key has it
RECURSIVE StripZeros(_)
StripZeros(r) ==
  IF r # << >> /\ r[Len(r)] = 0 THEN StripZeros(SubSeq(r, 1, Len(r) - 1)) ELSE r

\* Version.__eq__ : equality of the comparison keys
VersionEq(a, b) == [a EXCEPT !.release = StripZeros(@)] = [b EXCEPT !.release = StripZeros(@)]

\* ------------------------------------------------------------------------
\* datetime.date as used by core.py; a date is <<year, month, day>>
\* ------------------------------------------------------------------------
IsLeap(y) == (y % 4 = 0 /\ y % 100 # 0) \/ y % 400 = 0

DaysIn(y, m) ==
  IF m = 2 THEN (IF IsLeap(y) THEN 29 ELSE 28)
  ELSE IF m \in {4, 6, 9, 11} THEN 30 ELSE 31

\* date.strftime(DATE_FORMAT) with DATE_FORMAT = '%Y%m%d' (years from 1000 on)
strftime(d) ==
  ZeroPad(IntToStr(d[1]), 4) \o ZeroPad(IntToStr(d[2]), 2) \o ZeroPad(IntToStr(d[3]), 2)

\* datetime.datetime.strptime(text, DATE_FORMAT).date() for the 8 digits the
\* date group captures; every failure is a ValueError
strptime(text) ==
  LET y == ToInt(SubSeq(text, 1, 4))
      m == ToInt(SubSeq(text, 5, 6))
      d == ToInt(SubSeq(text, 7, 8))
  IN IF y >= 1 /\ m \in 1..12 /\ d >= 1 /\ d <= DaysIn(y, m)
     THEN Ok(<< y, m, d >>)
     ELSE Raise("strptime", "time data does not match format", text)

\* placeholders of the argument records where a field does not apply
NoDate == << >>
NoVersion == LegacyVersion

\* ------------------------------------------------------------------------
\* FileInfo: construction
\* ------------------------------------------------------------------------
_process_stem(stem) ==
  IF stem = << >> THEN Raise("stem", "stem is empty", << >>)
  ELSE LET r == sanitize_stem("stem", stem)
       IN IF ~r.ok THEN r
          ELSE IF ~STEM_PATTERN(r.val) THEN Raise("stem", "bad stem", r.val)
          ELSE r

_process_suffix(suffix) ==
  IF suffix = None \/ suffix[1] = << >> THEN Ok(None)
  ELSE IF ~VALID_SUFFIX_PATTERN(suffix[1]) THEN Raise("suffix", "bad suffix", suffix[1])
  ELSE Ok(suffix)

\* list(dict.fromkeys(l)) : the list without repetitions, first occurrences kept
RECURSIVE Dedupe(_)
Dedupe(l) ==
  IF l = << >> THEN << >>
  ELSE IF l[Len(l)] \in Range(SubSeq(l, 1, Len(l) - 1))
  THEN Dedupe(SubSeq(l, 1, Len(l) - 1))
  ELSE Append(Dedupe(SubSeq(l, 1, Len(l) - 1)), l[Len(l)])

\* _process_tags without the final sorted(): the tags keep their input order
_process_tags_Unsorted(tags) ==
  IF tags.kind = "none" THEN Ok(<< >>)
  ELSE IF \E i \in 1..Len(tags.val) : Replaced(tags.val[i]) = << >>
  THEN Raise("tags", "stem is empty", << >>)
  ELSE IF \E i \in 1..Len(tags.val) : ~VALID_TAG_PATTERN(Replaced(tags.val[i]))
  THEN Raise("tags", "bad tag",
             Replaced(tags.val[CHOOSE i \in 1..Len(tags.val) :
                                 ~VALID_TAG_PATTERN(Replaced(tags.val[i]))]))
  ELSE Ok(Dedupe([i \in 1..Len(tags.val) |-> Replaced(tags.val[i])]))

\* _process_tags that skips empty tags instead of sanitizing them
_process_tags_DropEmpty(tags) ==
  IF tags.kind = "none" THEN Ok(<< >>)
  ELSE IF \E i \in 1..Len(tags.val) :
            tags.val[i] # << >> /\ ~VALID_TAG_PATTERN(Replaced(tags.val[i]))
  THEN Raise("tags", "bad tag",
             Replaced(tags.val[CHOOSE i \in 1..Len(tags.val) :
                                 tags.val[i] # << >>
                                 /\ ~VALID_TAG_PATTERN(Replaced(tags.val[i]))]))
  ELSE Ok(SortedSeq({ Replaced(tags.val[i]) :
                        i \in { j \in 1..Len(tags.val) : tags.val[j] # << >> } }))

\* tags is [kind |-> "none" | "str" | "list", val |-> the strings]; a single
\* str is wrapped into a one-element list
_process_tags(tags) ==
  IF tags.kind = "none" THEN Ok(<< >>)
  ELSE LET list == tags.val
           clean == [i \in 1..Len(list) |-> sanitize_stem("tags", list[i])]
           set == { clean[i].val : i \in { j \in 1..Len(list) : clean[j].ok } }
       IN IF \E i \in 1..Len(list) : ~clean[i].ok
          THEN Raise("tags", "stem is empty", << >>)
          ELSE IF \E tag \in set : ~VALID_TAG_PATTERN(tag)
          THEN Raise("tags", "bad tag", CHOOSE tag \in set : ~VALID_TAG_PATTERN(tag))
          ELSE Ok(SortedSeq(set))

\* the isinstance(parsed_version, LegacyVersion) check of _process_version
RejectLegacy(parsed_version) ==
  IF parsed_version.legacy
  THEN Raise("version", "LegacyVersion is not supported", << >>)
  ELSE Ok(Some(parsed_version))

\* version is [kind |-> "none" | "str" | "Version", str |-> text, ver |-> Version]
_process_version(version) ==
  IF version.kind = "none" THEN Ok(None)
  ELSE IF version.kind = "str" THEN RejectLegacy(version_parse(version.str))
  ELSE Ok(Some(version.ver))

\* date is [kind |-> "none" | "false" | "true" | "date" | "datetime" | "other",
\* date |-> <<y, m, d>>]; today is what datetime.date.today() returns
_process_date(date, today) ==
  IF date.kind \in {"none", "false"} THEN Ok(None)
  ELSE IF date.kind = "true" THEN Ok(Some(today))
  ELSE IF date.kind = "datetime" THEN Ok(Some(date.date))
  ELSE IF date.kind = "date" THEN Ok(Some(date.date))
  ELSE Raise("date", "bad date", date.date)

\* __post_init__ with the date processed (and the clock read) before the
\* other fields
PostInitSteps_DateFirst(a, stem, suffix, tags, version, date) ==
  IF ~date.ok THEN [res |-> date, clock |-> FALSE]
  ELSE IF ~stem.ok THEN [res |-> stem, clock |-> a.date.kind = "true"]
  ELSE IF ~suffix.ok THEN [res |-> suffix, clock |-> a.date.kind = "true"]
  ELSE IF ~tags.ok THEN [res |-> tags, clock |-> a.date.kind = "true"]
  ELSE IF ~version.ok THEN [res |-> version, clock |-> a.date.kind = "true"]
  ELSE [res |-> [ok |-> TRUE, stem |-> stem.val, suffix |-> suffix.val,
                 tags |-> tags.val, date |-> date.val, version |-> version.val],
        clock |-> a.date.kind = "true"]

\* the five assignments of __post_init__ in their order; an exception of a
\* step ends the construction. res is the FileInfo or the exception, clock
\* tells whether datetime.date.today() was called.
PostInitSteps(a, stem, suffix, tags, version, date) ==
  IF ~stem.ok THEN [res |-> stem, clock |-> FALSE]
  ELSE IF ~suffix.ok THEN [res |-> suffix, clock |-> FALSE]
  ELSE IF ~tags.ok THEN [res |-> tags, clock |-> FALSE]
  ELSE IF ~version.ok THEN [res |-> version, clock |-> FALSE]
  ELSE IF ~date.ok THEN [res |-> date, clock |-> FALSE]
  ELSE [res |-> [ok |-> TRUE, stem |-> stem.val, suffix |-> suffix.val,
                 tags |-> tags.val, date |-> date.val, version |-> version.val],
        clock |-> a.date.kind = "true"]

\* FileInfo(stem, suffix, tags, date, version): the generated __init__ stores
\* the arguments a and calls __post_init__
__post_init__(a, today) ==
  PostInitSteps(a, _process_stem(a.stem), _process_suffix(a.suffix),
                _process_tags(a.tags), _process_version(a.version),
                _process_date(a.date, today))

\* the generated __eq__: the field tuples compare equal, versions by
\* Version.__eq__
FileInfoEq(a, b) ==
  /\ a.stem = b.stem
  /\ a.suffix = b.suffix
  /\ a.tags = b.tags
  /\ a.date = b.date
  /\ (a.version = None) = (b.version = None)
  /\ a.version # None => VersionEq(a.version[1], b.version[1])

\* ------------------------------------------------------------------------
\* FileInfo.name
\* ------------------------------------------------------------------------
\* name with the version block put before the date block
name_VersionFirst(self) ==
  self.stem
  \o (IF self.tags # << >> THEN << "-" >> \o Join(<< "-" >>, sorted(self.tags)) ELSE << >>)
  \o (IF self.version = None THEN << >> ELSE << "." >> \o VersionStr(self.version[1]))
  \o (IF self.date # None THEN << "." >> \o strftime(self.date[1]) ELSE << >>)
  \o (IF self.suffix = None THEN << >> ELSE << "." >> \o self.suffix[1])

name(self) ==
  LET suffix == IF self.suffix = None THEN << >> ELSE << "." >> \o self.suffix[1]
      tags == IF self.tags # << >>
              THEN << "-" >> \o Join(<< "-" >>, sorted(self.tags))
              ELSE << >>
      version == IF self.version = None THEN << >>
                 ELSE << "." >> \o VersionStr(self.version[1])
      date == IF self.date # None THEN << "." >> \o strftime(self.date[1]) ELSE << >>
  IN self.stem \o tags \o date \o version \o suffix

is_file(self) == self.suffix # None
is_dir(self) == self.suffix = None

\* ------------------------------------------------------------------------
\* FILE_NAME_PATTERN and DIR_NAME_PATTERN under re.match: each group tries
\* its longest alternative first and gives way only when the rest of the
\* pattern cannot match (backtracking); the first success is the match.
\* ------------------------------------------------------------------------
NoMatch == [matched |-> FALSE]

\* what follows the version group: SUFFIX_PATTERN = \.(\w*[a-zA-Z])$ in
\* FILE_NAME_PATTERN, nothing in DIR_NAME_PATTERN (no suffix group, no $)
SUFFIX_PATTERN(s, p, file) ==
  IF file
  THEN IF /\ p < Len(s)
          /\ s[p] = "."
          /\ AllIn(s, p + 1, Len(s), WordChars)
          /\ s[Len(s)] \in AsciiLetters
       THEN [matched |-> TRUE, suffix |-> Some(SubSeq(s, p + 1, Len(s))), end |-> Len(s)]
       ELSE NoMatch
  ELSE [matched |-> TRUE, suffix |-> None, end |-> p - 1]

\* a group result put in front of the match r of the rest of the pattern
WithVersion(r, version) ==
  IF ~r.matched THEN NoMatch
  ELSE [matched |-> TRUE, version |-> version, suffix |-> r.suffix, end |-> r.end]

WithDate(r, date) ==
  IF ~r.matched THEN NoMatch
  ELSE [matched |-> TRUE, date |-> date, version |-> r.version,
        suffix |-> r.suffix, end |-> r.end]

WithTags(r, tags) ==
  IF ~r.matched THEN NoMatch
  ELSE [matched |-> TRUE, tags |-> tags, date |-> r.date, version |-> r.version,
        suffix |-> r.suffix, end |-> r.end]

WithStem(r, stem) ==
  IF ~r.matched THEN NoMatch
  ELSE [matched |-> TRUE, stem |-> stem, tags |-> r.tags, date |-> r.date,
        version |-> r.version, suffix |-> r.suffix, end |-> r.end]

\* VERSION_PATTERN = (\.(?P<version>[\w\.]+))? followed by the rest; E holds
\* the ends of the version texts after which the rest matches
VersionGroup(s, p, file, E) ==
  IF E # {}
  THEN WithVersion(SUFFIX_PATTERN(s, MaxOf(E) + 1, file), Some(SubSeq(s, p + 1, MaxOf(E))))
  ELSE WithVersion(SUFFIX_PATTERN(s, p, file), None)

VERSION_PATTERN(s, p, file) ==
  VersionGroup(s, p, file,
               { e \in (p + 1)..Len(s) :
                   /\ s[p] = "."
                   /\ AllIn(s, p + 1, e, WordChars \cup {"."})
                   /\ SUFFIX_PATTERN(s, e + 1, file).matched })

\* DATE_PATTERN = (\.(?P<date>\d{8}))? followed by the rest
DATE_PATTERN(s, p, file) ==
  IF /\ p + 8 <= Len(s)
     /\ s[p] = "."
     /\ AllIn(s, p + 1, p + 8, DigitChars)
     /\ VERSION_PATTERN(s, p + 9, file).matched
  THEN WithDate(VERSION_PATTERN(s, p + 9, file), Some(SubSeq(s, p + 1, p + 8)))
  ELSE WithDate(VERSION_PATTERN(s, p, file), None)

\* TAG_PATTERN = (-(?P<tags>[\w-]+))? followed by the rest; E holds the ends
\* of the tag texts after which the rest matches
TagGroup(s, p, file, E) ==
  IF E # {}
  THEN WithTags(DATE_PATTERN(s, MaxOf(E) + 1, file), Some(SubSeq(s, p + 1, MaxOf(E))))
  ELSE WithTags(DATE_PATTERN(s, p, file), None)

TAG_PATTERN(s, p, file) ==
  TagGroup(s, p, file,
           { e \in (p + 1)..Len(s) :
               /\ s[p] = "-"
               /\ AllIn(s, p + 1, e, WordChars \cup {"-"})
               /\ DATE_PATTERN(s, e + 1, file).matched })

\* STEM_PATTERN = ^(?P<stem>\w+) in front; E holds the ends of the stems
\* after which the rest matches
StemGroup(s, file, E) ==
  IF E = {} THEN NoMatch
  ELSE WithStem(TAG_PATTERN(s, MaxOf(E) + 1, file), SubSeq(s, 1, MaxOf(E)))

\* re.match(pattern, s)
ReMatch(s, file) ==
  StemGroup(s, file,
            { i \in 1..Len(s) :
                AllIn(s, 1, i, WordChars) /\ TAG_PATTERN(s, i + 1, file).matched })

\* DIR_NAME_PATTERN with a $ at its end
DIR_NAME_PATTERN_Anchored(s) ==
  IF ReMatch(s, FALSE).matched /\ ReMatch(s, FALSE).end = Len(s)
  THEN ReMatch(s, FALSE) ELSE NoMatch

FILE_NAME_PATTERN(s) == ReMatch(s, TRUE)
DIR_NAME_PATTERN(s) == ReMatch(s, FALSE)

\* re.match(FILE_NAME_PATTERN, s) or re.match(DIR_NAME_PATTERN, s), given the
\* first
OrDirMatch(fileMatch, s) ==
  IF fileMatch.matched THEN fileMatch ELSE DIR_NAME_PATTERN(s)

\* the match FileInfo.parse works on
ParseMatch(file_name) == OrDirMatch(FILE_NAME_PATTERN(file_name), file_name)

\* parse that splits the tags group even when it did not participate
FromGroups_SplitAbsent(match, date) ==
  IF ~date.ok THEN date
  ELSE __post_init__(
         [stem |-> match.stem,
          suffix |-> match.suffix,
          tags |-> [kind |-> "list",
                    val |-> IF match.tags # None THEN Split(match.tags[1], "-")
                            ELSE Split(<< >>, "-")],
          date |-> IF match.date # None
                   THEN [kind |-> "date", date |-> date.val]
                   ELSE [kind |-> "none", date |-> NoDate],
          version |-> IF match.version # None
                      THEN [kind |-> "str", str |-> match.version[1], ver |-> NoVersion]
                      ELSE [kind |-> "none", str |-> << >>, ver |-> NoVersion]],
         NoDate).res

\* cls(**match_dict) once the tags are split and the date is converted
FromGroups(match, date) ==
  IF ~date.ok THEN date
  ELSE __post_init__(
         [stem |-> match.stem,
          suffix |-> match.suffix,
          tags |-> [kind |-> "list",
                    val |-> IF match.tags # None THEN Split(match.tags[1], "-")
                            ELSE << >>],
          date |-> IF match.date # None
                   THEN [kind |-> "date", date |-> date.val]
                   ELSE [kind |-> "none", date |-> NoDate],
          version |-> IF match.version # None
                      THEN [kind |-> "str", str |-> match.version[1], ver |-> NoVersion]
                      ELSE [kind |-> "none", str |-> << >>, ver |-> NoVersion]],
         NoDate).res

\* the body of FileInfo.parse after the match
ParseGroups(match, file_name) ==
  IF ~match.matched THEN Raise("parse", "Invalid file name", file_name)
  ELSE FromGroups(match, IF match.date # None THEN strptime(match.date[1])
                         ELSE Ok(NoDate))

\* FileInfo.parse(file_name): the FileInfo, or the exception raised
parse(file_name) == ParseGroups(ParseMatch(file_name), file_name)

\* ------------------------------------------------------------------------
\* Inputs
\* ------------------------------------------------------------------------
MaxTags == 2
MaxRawLen == 4
MaxSetAttr == 1

foo == << "f", "o", "o" >>
txt == << "t", "x", "t" >>
tax == << "t", "a", "x" >>
sea == << "s", "e", "a" >>

Stems == { foo, << "f", "o", "o", "/", "a", "d" >>, << >>, << "f", "+" >> }

Suffixes == { None, Some(<< >>), Some(txt), Some(<< "1", "2", "3" >>) }

TagPool == { tax, << "a", "-", "d" >>, << >> }

TagLists == UNION { [1..n -> TagPool] : n \in 0..MaxTags }

TagInputs ==
  { [kind |-> "none", val |-> << >>] }
  \cup { [kind |-> "str", val |-> << t >>] : t \in TagPool \cup { << "t", "+" >> } }
  \cup { [kind |-> "list", val |-> l] : l \in TagLists }

Todays == { << 2024, 2, 29 >>, << 2026, 11, 1 >> }

DateInputs ==
  { [kind |-> k, date |-> NoDate] : k \in {"none", "false", "true", "other"} }
  \cup { [kind |-> "date", date |-> << 2020, 1, 1 >>],
         [kind |-> "datetime", date |-> << 1999, 12, 31 >>] }

VersionTexts ==
  { << "1", ".", "0" >>,
    << "1", ".", "0", ".", "1", ".", "p", "o", "s", "t", "1" >>,
    << "0", "1", ".", "0", "a" >>,
    << "2", "0", "2", "0", "0", "1", "0", "1" >>,
    << "2", "0", "2", "0", "0", "1", "0", "1", "1" >>,
    << "9", "9", "9", "9", "9", "9", "9", "9" >>,
    << "1", "!", "2" >>,
    << "1", ".", "0", "+", "a" >>,
    sea }

VersionInputs ==
  { [kind |-> "none", str |-> << >>, ver |-> NoVersion] }
  \cup { [kind |-> "str", str |-> v, ver |-> NoVersion] : v \in VersionTexts }
  \cup { [kind |-> "Version", str |-> << >>,
          ver |-> version_parse(<< "2", ".", "0", ".", "d", "e", "v", "3" >>)] }

\* names given to nameparse directly: every string over RawChars up to
\* MaxRawLen, and some longer ones
RawChars == { "a", "1", ".", "-", "+" }

RawShort == UNION { [1..n -> RawChars] : n \in 0..MaxRawLen }

RawLong ==
  { foo \o << "-" >> \o tax \o << "-" >> \o sea
      \o << ".", "2", "0", "2", "0", "0", "1", "0", "1", ".", "1", ".", "0", ".", "0", "." >> \o txt,
    foo \o << ".", "1", ".", "0", "." >> \o txt,
    foo \o << ".", "1", ".", "0", ".", "t", "x", "t", "+" >>,
    foo \o << "-", "-" >> \o tax,
    foo \o << "-" >> \o tax \o << "-" >> \o sea \o << "/" >> \o txt,
    foo \o << ".", "2", "0", "2", "0", "0", "2", "3", "0" >>,
    foo \o << ".", "1", "2", "3", "4", "5", "6", "7", "8", "." >>,
    foo \o << ".", "0", "1", ".", "0" >>,
    foo \o << ".", "U+00E9" >>,
    foo \o << "." >> \o sea \o << "." >> \o txt,
    << " " >> \o foo }

RawNames == RawShort \cup RawLong

\* ------------------------------------------------------------------------
\* State
\* ------------------------------------------------------------------------
VARIABLES
  pc,         \* "start", "failed", "constructed", "named", "parsed", "rendered"
  today,      \* what datetime.date.today() returns
  args,       \* the arguments given to FileInfo(...)
  obj,        \* the FileInfo constructed from args, or the exception raised
  fname,      \* the name: obj.name(), or the string given to nameparse
  parsed,     \* FileInfo.parse(fname): the FileInfo, or the exception raised
  rendered,   \* parsed.name()
  clockReads, \* calls of datetime.date.today()
  setattrs    \* attribute assignments made on obj

vars == << pc, today, args, obj, fname, parsed, rendered, clockReads, setattrs >>

NotRun == [ok |-> FALSE, step |-> "none", msg |-> "none", value |-> << >>]

NoArgs == [stem |-> << >>, suffix |-> None,
           tags |-> [kind |-> "none", val |-> << >>],
           date |-> [kind |-> "none", date |-> NoDate],
           version |-> [kind |-> "none", str |-> << >>, ver |-> NoVersion]]

Init ==
  /\ pc = "start"
  /\ today \in Todays
  /\ args = NoArgs
  /\ obj = NotRun
  /\ fname = << >>
  /\ parsed = NotRun
  /\ rendered = << >>
  /\ clockReads = 0
  /\ setattrs = 0

\* the outcome r of FileInfo(**a)
Constructed(a, r) ==
  /\ args' = a
  /\ obj' = r.res
  /\ clockReads' = IF r.clock THEN clockReads + 1 ELSE clockReads
  /\ pc' = IF r.res.ok THEN "constructed" ELSE "failed"

\* FileInfo(stem, suffix, tags, date, version)
NewFileInfo ==
  /\ pc = "start"
  /\ \E stem \in Stems, suffix \in Suffixes, tags \in TagInputs,
        date \in DateInputs, version \in VersionInputs :
       Constructed([stem |-> stem, suffix |-> suffix, tags |-> tags,
                    date |-> date, version |-> version],
                   __post_init__([stem |-> stem, suffix |-> suffix, tags |-> tags,
                                  date |-> date, version |-> version], today))
  /\ UNCHANGED << today, fname, parsed, rendered, setattrs >>

\* obj.name()
Name ==
  /\ pc = "constructed"
  /\ fname' = name(obj)
  /\ pc' = "named"
  /\ UNCHANGED << today, args, obj, parsed, rendered, clockReads, setattrs >>

\* FileInfo.parse(fname) on the name obj.name() returned
Parse ==
  /\ pc = "named"
  /\ parsed' = parse(fname)
  /\ pc' = "parsed"
  /\ UNCHANGED << today, args, obj, fname, rendered, clockReads, setattrs >>

\* nameparse(file_name) on a string of the caller
nameparse ==
  /\ pc = "start"
  /\ \E file_name \in RawNames :
       /\ fname' = file_name
       /\ parsed' = parse(file_name)
  /\ pc' = "parsed"
  /\ UNCHANGED << today, args, obj, rendered, clockReads, setattrs >>

\* str(parsed)
NameParsed ==
  /\ pc = "parsed"
  /\ parsed.ok
  /\ rendered' = name(parsed)
  /\ pc' = "rendered"
  /\ UNCHANGED << today, args, obj, fname, parsed, clockReads, setattrs >>

\* obj.stem = value, obj.suffix = value or obj.tags = value: FileInfo is a
\* dataclass that is not frozen, an assignment stores the value as it is
AttrTags == { << << "a", "-", "d" >> >>, << tax, tax >> }

SetAttr ==
  /\ pc \in {"constructed", "named", "parsed", "rendered"}
  /\ obj.ok
  /\ setattrs < MaxSetAttr
  /\ \/ \E value \in Stems : obj' = [obj EXCEPT !.stem = value]
     \/ \E value \in Suffixes : obj' = [obj EXCEPT !.suffix = value]
     \/ \E value \in AttrTags : obj' = [obj EXCEPT !.tags = value]
  /\ setattrs' = setattrs + 1
  /\ UNCHANGED << pc, today, args, fname, parsed, rendered, clockReads >>

Next ==
  \/ NewFileInfo
  \/ Name
  \/ Parse
  \/ nameparse
  \/ NameParsed

Spec == Init /\ [][Next]_vars

\* the program with attribute assignments by the caller
NextMut == Next \/ SetAttr

SpecMut == Init /\ [][NextMut]_vars

\* ------------------------------------------------------------------------
\* Properties
\* ------------------------------------------------------------------------
\* a FileInfo(...) call has been made
Made == obj.ok \/ obj.step # "none"

WordStart(s) == s # << >> /\ s[1] \in WordChars

IsPrefix(p, s) == Len(p) <= Len(s) /\ SubSeq(s, 1, Len(p)) = p

StrictlyAscending(l) == \A i \in 1..Len(l) : \A j \in 1..Len(l) : i < j => StrLess(l[i], l[j])

\* C1: decoding the name of a constructed FileInfo gives a FileInfo equal to
\* it on stem, suffix, tags, date and version, whatever the valid arguments
\* (a version without a date whose text begins with 8 digits included).
C1_RoundTripDecode ==
  (pc \in {"parsed", "rendered"} /\ obj.ok) => (parsed.ok /\ FileInfoEq(parsed, obj))

\* C2: the name s of a constructed FileInfo parses, and the name of the
\* parsed FileInfo is s again, character for character.
C2_RoundTripEncode ==
  obj.ok => /\ pc = "parsed" => parsed.ok
            /\ pc = "rendered" => rendered = fname

\* the blocks of a name, written from the fields
TagsBlock(tags) ==
  IF tags = << >> THEN << >>
  ELSE << "-" >> \o Join(<< "-" >>, tags)

DateDigits(n) ==
  << DigitOf((n \div 10000000) % 10), DigitOf((n \div 1000000) % 10),
     DigitOf((n \div 100000) % 10), DigitOf((n \div 10000) % 10),
     DigitOf((n \div 1000) % 10), DigitOf((n \div 100) % 10),
     DigitOf((n \div 10) % 10), DigitOf(n % 10) >>

DateBlock(date) ==
  IF date = None THEN << >>
  ELSE << "." >> \o DateDigits(date[1][1] * 10000 + date[1][2] * 100 + date[1][3])

VersionBlock(version) ==
  IF version = None THEN << >> ELSE << "." >> \o VersionStr(version[1])

SuffixBlock(suffix) ==
  IF suffix = None THEN << >> ELSE << "." >> \o suffix[1]

Blocks(o) ==
  o.stem \o TagsBlock(o.tags) \o DateBlock(o.date) \o VersionBlock(o.version)
    \o SuffixBlock(o.suffix)

\* C3: a name is the stem, then "-" and the tags joined by "-" in ascending
\* order, then "." and the 8 digits YYYYMMDD of the date, then "." and the
\* canonical text of the version, then "." and the suffix, each block only
\* when its field is there; naming a constructed FileInfo always gives a name.
C3_RenderBlocks ==
  /\ (pc \in {"named", "parsed", "rendered"} /\ obj.ok) =>
       /\ StrictlyAscending(obj.tags)
       /\ fname = Blocks(obj)
  /\ pc = "rendered" =>
       /\ StrictlyAscending(parsed.tags)
       /\ rendered = Blocks(parsed)

W_C3 ==
  /\ pc = "named"
  /\ Len(obj.tags) = 2
  /\ obj.date # None
  /\ obj.version # None
  /\ obj.suffix # None
  /\ fname = foo \o << "-", "a", "_", "d", "-" >> \o tax
               \o << ".", "2", "0", "2", "0", "0", "1", "0", "1", ".", "1", ".", "0", "." >>
               \o txt

\* C4: parse takes the file pattern before the directory pattern, so the
\* name of a FileInfo with a version and a suffix decodes to that version and
\* that suffix, never to a directory name whose version holds the suffix.
C4_VersionAndSuffix ==
  pc \in {"parsed", "rendered"} =>
    /\ (FILE_NAME_PATTERN(fname).matched /\ parsed.ok) => is_file(parsed)
    /\ (obj.ok /\ obj.version # None /\ obj.suffix # None) =>
         /\ parsed.ok
         /\ ~is_dir(parsed)
         /\ parsed.suffix = obj.suffix
         /\ parsed.version # None
         /\ VersionEq(parsed.version[1], obj.version[1])

\* C5 as stated: parse either fails with the invalid-name error, when the
\* string matches neither pattern, or returns a FileInfo; a string that
\* matches a pattern never makes it fail.
C5_TwoOutcomes ==
  pc \in {"parsed", "rendered"} =>
    IF ParseMatch(fname).matched THEN parsed.ok
    ELSE parsed = Raise("parse", "Invalid file name", fname)

\* the tags text has an empty tag in it
EmptyTagIn(text) == \E i \in 1..Len(Split(text, "-")) : Split(text, "-")[i] = << >>

C5Matched(m, r) ==
  /\ r.ok =>
       /\ r.stem = m.stem
       /\ (m.tags = None) = (r.tags = << >>)
       /\ (m.date = None) = (r.date = None)
       /\ (m.version = None) = (r.version = None)
       /\ (m.suffix = None) = (r.suffix = None)
  /\ ~r.ok =>
       \/ r.step = "strptime" /\ m.date # None /\ r.value = m.date[1]
       \/ r.step = "tags" /\ r.msg = "stem is empty" /\ m.tags # None
            /\ EmptyTagIn(m.tags[1])
       \/ r.step = "version" /\ r.msg = "LegacyVersion is not supported"
            /\ m.version # None /\ version_parse(m.version[1]).legacy

C5Outcome(m, r, s) ==
  IF m.matched THEN C5Matched(m, r)
  ELSE r = Raise("parse", "Invalid file name", s)

\* C5, amended: parse fails with the invalid-name error carrying s when s
\* matches neither pattern; when s matches, the groups go to the constructor,
\* a group that did not participate as absent, and parse returns the FileInfo
\* or fails with the ValueError of the date conversion, of an empty tag or of
\* a legacy version.
C5_ParseOutcomes ==
  pc \in {"parsed", "rendered"} => C5Outcome(ParseMatch(fname), parsed, fname)

W_C5 ==
  /\ pc = "parsed"
  /\ FILE_NAME_PATTERN(fname).matched
  /\ ~parsed.ok
  /\ parsed.step = "version"

\* the outcome of FileInfo(...) with the tags l in place of those of args
SameWithTags(r) ==
  /\ r.ok
  /\ FileInfoEq(r, obj)
  /\ r.tags = obj.tags
  /\ name(r) = name(obj)

\* C6: two tag collections with the same set of tags, in any order and with
\* any repetition, give equal FileInfos with the same name.
C6_TagOrder ==
  (obj.ok /\ setattrs = 0 /\ args.tags.kind = "list") =>
    \A l \in TagLists :
      Range(l) = Range(args.tags.val) =>
        SameWithTags(__post_init__([args EXCEPT !.tags.val = l], today).res)

W_C6 ==
  /\ pc = "named"
  /\ args.tags.kind = "list"
  /\ args.tags.val = << tax, << "a", "-", "d" >> >>
  /\ obj.tags = << << "a", "_", "d" >>, tax >>

\* C7 as stated: absent tags, an empty collection, the empty string and a
\* collection of empty strings all mean "no tags" and raise nothing.
C7_EmptyTagsNoError ==
  (Made /\ \A i \in 1..Len(args.tags.val) : args.tags.val[i] = << >>) =>
    IF obj.ok THEN obj.tags = << >> ELSE obj.step # "tags"

\* C7, amended: absent tags and an empty collection mean "no tags" and the
\* tags step raises nothing; an empty string, alone or in a collection, makes
\* the tags step raise ValueError('stem is empty').
C7_EmptyTags ==
  Made =>
    /\ args.tags.val = << >> =>
         IF obj.ok THEN obj.tags = << >> ELSE obj.step # "tags"
    /\ (\E i \in 1..Len(args.tags.val) : args.tags.val[i] = << >>) =>
         /\ ~obj.ok
         /\ obj.step \in {"stem", "suffix", "tags"}
         /\ obj.step = "tags" => obj.msg = "stem is empty"

W_C7 ==
  /\ pc = "failed"
  /\ args.tags = [kind |-> "str", val |-> << << >> >>]
  /\ obj.step = "tags"
  /\ obj.msg = "stem is empty"

C8Steps(stem, suffix, tags, version, date) ==
  /\ ~stem.ok => obj = stem
  /\ (stem.ok /\ ~suffix.ok) => obj = suffix
  /\ (stem.ok /\ suffix.ok /\ ~tags.ok) => obj = tags
  /\ (stem.ok /\ suffix.ok /\ tags.ok /\ ~version.ok) => obj = version
  /\ (stem.ok /\ suffix.ok /\ tags.ok /\ version.ok /\ ~date.ok) => obj = date
  /\ (stem.ok /\ suffix.ok /\ tags.ok /\ version.ok /\ date.ok) => obj.ok
  /\ clockReads = IF /\ stem.ok /\ suffix.ok /\ tags.ok /\ version.ok
                     /\ args.date.kind = "true"
                  THEN 1 ELSE 0
  /\ ~obj.ok => pc = "failed"

\* C8: construction processes stem, suffix, tags, version, date in this
\* order and stops at the first step that raises: the exception is that of
\* the earliest failing step, the clock is not read when an earlier step
\* fails, and no FileInfo comes out.
C8_FailFast ==
  (Made /\ setattrs = 0) =>
    C8Steps(_process_stem(args.stem), _process_suffix(args.suffix),
            _process_tags(args.tags), _process_version(args.version),
            _process_date(args.date, today))

W_C8 ==
  /\ pc = "failed"
  /\ args.stem = << >>
  /\ args.suffix = Some(<< "1", "2", "3" >>)
  /\ args.date.kind = "true"
  /\ obj.step = "stem"
  /\ clockReads = 0

ValidFileInfo(o) ==
  /\ o.stem # << >>
  /\ \A i \in 1..Len(o.stem) : o.stem[i] \notin INVALID_STEM_CHAR
  /\ \A i \in 1..Len(o.tags) :
       o.tags[i] # << >> /\ AllIn(o.tags[i], 1, Len(o.tags[i]), WordChars)
  /\ StrictlyAscending(o.tags)
  /\ o.suffix # None =>
       /\ o.suffix[1] # << >>
       /\ AllIn(o.suffix[1], 1, Len(o.suffix[1]), WordChars)
       /\ o.suffix[1][Len(o.suffix[1])] \in AsciiLetters

\* C9: a FileInfo stays valid under every operation it permits, attribute
\* assignment included: stem non-empty without ".", "-", "/", space; tags
\* non-empty words, strictly ascending; suffix absent or a word ending in an
\* ASCII letter.
C9_AlwaysValid ==
  /\ obj.ok => ValidFileInfo(obj)
  /\ parsed.ok => ValidFileInfo(parsed)

GroupsText(m) ==
  m.stem
  \o (IF m.tags = None THEN << >> ELSE << "-" >> \o m.tags[1])
  \o (IF m.date = None THEN << >> ELSE << "." >> \o m.date[1])
  \o (IF m.version = None THEN << >> ELSE << "." >> \o m.version[1])

C10Prefix(m, s, r) ==
  /\ m.matched
  /\ m.end \in 1..Len(s)
  /\ GroupsText(m) = SubSeq(s, 1, m.end)
  /\ r = ParseGroups(ReMatch(SubSeq(s, 1, m.end), FALSE), SubSeq(s, 1, m.end))

====
